---- MODULE Spec2Model ----
(***************************************************************************)
(* MarkdownFileTracker (vs/workbench/parts/markdown/browser/               *)
(* markdownExtension.ts): the workbench contribution that keeps markdown   *)
(* preview editors in step with edits of the previewed document, with the  *)
(* markdown.styles configuration, with the colour theme and with changes   *)
(* of the style files on disk.                                             *)
(*                                                                         *)
(* Strings that the code takes apart or joins (style paths, thumbprints,   *)
(* resources of style files) are sequences of one-character strings.       *)
(* Theme identifiers are sequences of blank-separated tokens.              *)
(***************************************************************************)
EXTENDS Integers, Sequences, FiniteSets, TLC

VARIABLES
    pc,                              \* position in the constructor, then "ready"
    fileChangeListener,              \* the four IDisposable fields (a handle or Null)
    configFileChangeListener,
    themeChangeListener,
    editorInputChangeListener,
    disposeCalls,                    \* per handle: how often its dispose() ran
    markdownConfigurationThumbprint,
    markdownConfigurationPaths,
    reloadTimeout,                   \* the last timer id handed out by setTimeout, 0 = unset
    hasModelListenerOnResourcePath,
    bundles,                         \* the toUnbind arrays captured by the unbind closures
    listeners,                       \* bundle ids in the order their content listeners were added
    timers,                          \* pending setTimeout callbacks by timer id
    models,                          \* resources that modelService.getModel resolves
    opened,                          \* markdown editor inputs that exist (not disposed)
    editors,                         \* the input each editor position shows
    active,                          \* the active editor position
    burst,                           \* content changes that set a timer since a timer last fired
    event,                           \* the event delivered by the last step
    effects                          \* the calls the last step made, in order

vars == << pc, fileChangeListener, configFileChangeListener, themeChangeListener,
           editorInputChangeListener, disposeCalls, markdownConfigurationThumbprint,
           markdownConfigurationPaths, reloadTimeout, hasModelListenerOnResourcePath,
           bundles, listeners, timers, models, opened, editors, active, burst, event, effects >>

trackerVars == << fileChangeListener, configFileChangeListener, themeChangeListener,
                  editorInputChangeListener, disposeCalls >>
styleVars == << markdownConfigurationThumbprint, markdownConfigurationPaths >>
bundleVars == << reloadTimeout, hasModelListenerOnResourcePath, bundles, listeners, timers >>
hostVars == << models, opened, editors, active >>

----------------------------------------------------------------------------
(* Bounds of the model *)

MaxBundles == 2      \* toUnbind arrays that are non-empty or held by a pending timer
MaxTimers == 2       \* timer ids told apart: the pending ones and the one in reloadTimeout
MaxStyles == 2       \* length of a markdown.styles list
MaxBurst == 2        \* content changes in one burst

----------------------------------------------------------------------------
(* The host: documents, editor inputs, editors *)

Null == "null"
None == "none"

Docs == {"d1", "d2"}
MdInputs == {"i1", "i2", "i3"}          \* MarkdownEditorInput instances
OtherInputs == {"t1"}                   \* an input of another type, shown in a text editor
SlotSeq == <<"e1", "e2">>               \* editor positions, in getVisibleEditors() order
Slots == {SlotSeq[k] : k \in 1..Len(SlotSeq)}

\* MarkdownEditorInput.getResource(): i1 and i2 preview the same document
getResource(i) == IF i = "i3" THEN "d2" ELSE "d1"

\* input instanceof MarkdownEditorInput
IsMarkdownEditorInput(i) == i \in MdInputs

\* editor instanceof IFrameEditor: markdown inputs open in the iframe editor
IsIFrameEditor(e) == editors[e] \in MdInputs

\* editorService.getActiveEditorInput()
getActiveEditorInput == IF active = None THEN None ELSE editors[active]

\* editorService.getVisibleEditors()
getVisibleEditors == SelectSeq(SlotSeq, LAMBDA e : editors[e] # None)

\* modelService.getModel(resource)
getModel(r) == IF r \in models THEN r ELSE None

----------------------------------------------------------------------------
(* Effects: what a handler calls on its collaborators *)

Effect(op, clear, arg) == [op |-> op, clear |-> clear, arg |-> arg]

\* an event of the host: its kind, its payload, and whether a handler of the
\* tracker ran for it; for a timer the burst it ends and the bundle whose
\* listener set it; for dispose() whether the tracker was disposed before
NoEvent == [kind |-> "none", handled |-> FALSE, doc |-> None, theme |-> <<>>,
            cfg |-> [kind |-> "none", styles |-> <<>>], changes |-> {}, burst |-> 0,
            bundle |-> 0, again |-> FALSE]

Ev(kind, handled) == [NoEvent EXCEPT !.kind = kind, !.handled = handled]

----------------------------------------------------------------------------
(* reloadMarkdownEditors(clearIFrame, resource?) *)

\* faulty variant: the resource is not compared
ReloadTargetsAnyDocument(resource) ==
    SelectSeq(getVisibleEditors,
              LAMBDA e : IsMarkdownEditorInput(editors[e]) /\ IsIFrameEditor(e))

\* the editors the forEach body reloads, in order; resource = None when omitted
ReloadTargets(resource) ==
    SelectSeq(getVisibleEditors,
              LAMBDA e : /\ IsMarkdownEditorInput(editors[e])
                         /\ IsIFrameEditor(e)
                         /\ (resource = None \/ resource = getResource(editors[e])))

\* the calls of one reloadMarkdownEditors invocation
ReloadEffects(clearIFrame, resource) ==
    <<Effect("reloadMarkdownEditors", clearIFrame, resource)>> \o
    [k \in 1..Len(ReloadTargets(resource)) |->
        Effect("reload", clearIFrame, ReloadTargets(resource)[k])]

\* its return value
didReload(resource) == Len(ReloadTargets(resource)) > 0

----------------------------------------------------------------------------
(* Style configuration: markdown.styles, its thumbprint and its paths *)

StyleNames == { <<"a">>, <<"a", "a">> }

StyleLists == UNION { [1..n -> StyleNames] : n \in 0..MaxStyles }

\* a configuration event's config: absent, without a markdown section, with a
\* styles value that is no array, or with an array of style strings
Config(kind, styles) == [kind |-> kind, styles |-> styles]
AbsentConfigs == { Config("null", <<>>), Config("nomarkdown", <<>>), Config("nonarray", <<>>) }
AllConfigs == AbsentConfigs \cup { Config("array", l) : l \in StyleLists }

\* values of the thumbprint field: undefined, null or a string
Undefined == [kind |-> "undefined", s |-> <<>>]
NullValue == [kind |-> "null", s |-> <<>>]
Str(s) == [kind |-> "string", s |-> s]

\* Array.prototype.join('')
RECURSIVE join(_)
join(l) == IF l = <<>> THEN <<>> ELSE Head(l) \o join(Tail(l))

\* paths.normalize: runs of separators collapse to one
RECURSIVE normalize(_)
normalize(p) ==
    IF Len(p) < 2 THEN p
    ELSE IF Head(p) = "/" /\ Head(Tail(p)) = "/" THEN normalize(Tail(p))
    ELSE <<Head(p)>> \o normalize(Tail(p))

\* paths.makePosixAbsolute: a leading separator is added unless there is one
makePosixAbsolute(p) == IF p # <<>> /\ Head(p) = "/" THEN p ELSE <<"/">> \o p

\* contextService.toResource: the path below the workspace folder
toResource(p) == <<"w">> \o p

\* faulty variant: the old thumbprint is read after the field was reset to null
OldThumbprintEarly(current) == NullValue

\* the value readMarkdownConfiguration keeps as oldMarkdownConfigurationThumbprint
OldThumbprint(current) == current

\* faulty variant: the thumbprint is joined from the normalized paths
NewThumbprintOfPaths(cfg) ==
    IF cfg.kind = "array"
    THEN Str(join([k \in 1..Len(cfg.styles) |-> makePosixAbsolute(normalize(cfg.styles[k]))]))
    ELSE Undefined

\* newMarkdownConfigurationThumbprint: set only in the array branch
NewThumbprint(cfg) == IF cfg.kind = "array" THEN Str(join(cfg.styles)) ELSE Undefined

\* this.markdownConfigurationPaths after the read
NewPaths(cfg) ==
    IF cfg.kind = "array"
    THEN [k \in 1..Len(cfg.styles) |-> makePosixAbsolute(normalize(cfg.styles[k]))]
    ELSE <<>>

\* readMarkdownConfiguration(languageConfiguration): the fields it stores and its result
readMarkdownConfiguration(current, cfg) ==
    [thumbprint |-> NewThumbprint(cfg),
     paths |-> NewPaths(cfg),
     changed |-> OldThumbprint(current) # NewThumbprint(cfg)]

\* file changes: a resource and a FileChangeType
FileChangeTypes == {"ADDED", "UPDATED", "DELETED"}
FileChange(r, t) == [resource |-> r, type |-> t]
AllFileChanges ==
    { FileChange(toResource(<<"/", "a">>), t) : t \in FileChangeTypes }
        \cup { FileChange(toResource(<<"/", "a", "a">>), "UPDATED") }
FileChangesEvents == SUBSET AllFileChanges
CoreFileChangesEvents == { {}, {FileChange(toResource(<<"/", "a">>), "UPDATED")} }

\* FileChangesEvent.containsAny(resources, type)
containsAny(changes, resources, type) ==
    \E k \in 1..Len(resources) : FileChange(resources[k], type) \in changes

\* faulty variant: a change of any type counts
StyleFileChangedAnyType(paths, changes) ==
    /\ Len(paths) # 0
    /\ \E t \in FileChangeTypes :
          containsAny(changes, [k \in 1..Len(paths) |-> toResource(paths[k])], t)

\* the condition of onFileChanges, with FileChangeType.UPDATED
StyleFileChanged(paths, changes) ==
    /\ Len(paths) # 0
    /\ containsAny(changes, [k \in 1..Len(paths) |-> toResource(paths[k])], "UPDATED")

----------------------------------------------------------------------------
(* Themes *)

ThemeIds == { <<>>, <<"vs">>, <<"vs-dark", "custom">> }

\* getBaseThemeId(themeId): the identifier up to its first blank
getBaseThemeId(theme) == Head(theme)

\* configureMode(theme): the calls it makes
configureModeEffects(theme) ==
    IF theme # <<>>
    THEN <<Effect("configureMode", FALSE, getBaseThemeId(theme))>>
    ELSE <<>>

----------------------------------------------------------------------------
(* Listener bundles and debounce timers *)

Handles == {"file", "config", "editors", "theme"}
Subscriptions == {"content", "input", "model"}
BundleIds == 1..MaxBundles
TimerIds == 1..MaxTimers

NoBundle == [resource |-> None, input |-> None, toUnbind |-> {}]
NoTimer == [resource |-> None, bundle |-> 0]

\* a registration of the tracker at one of its four event sources is live
Subscribed(h) == pc = "ready" /\ disposeCalls[h] = 0

\* the part of the state the closures of onEditorsChanged work on
BundleState == [bundles |-> bundles, listeners |-> listeners,
                has |-> hasModelListenerOnResourcePath,
                timers |-> timers, reloadTimeout |-> reloadTimeout, ok |-> TRUE]

\* faulty variant: the flag is left as it is
unbindKeepingFlag(b, st) ==
    [st EXCEPT !.bundles[b].toUnbind = {},
               !.listeners = SelectSeq(st.listeners, LAMBDA x : x # b)]

\* the unbind closure of bundle b: dispose(toUnbind), then clear the flag
unbind(b, st) ==
    [st EXCEPT !.bundles[b].toUnbind = {},
               !.listeners = SelectSeq(st.listeners, LAMBDA x : x # b),
               !.has[st.bundles[b].resource] = FALSE]

\* every listener of one emitter runs unbind
RECURSIVE unbindAll(_, _)
unbindAll(S, st) ==
    IF S = {} THEN st
    ELSE LET b == CHOOSE x \in S : TRUE
         IN  unbindAll(S \ {b}, unbind(b, st))

\* toUnbind arrays that nothing refers to any more are dropped
Collect(st) ==
    [st EXCEPT !.bundles =
        [b \in BundleIds |->
            IF st.bundles[b].toUnbind = {} /\ \A t \in TimerIds : st.timers[t].bundle # b
            THEN NoBundle ELSE st.bundles[b]]]

\* faulty variant: the pending timer is not cleared
clearReloadTimeoutNever(st) == st

\* window.clearTimeout(this.reloadTimeout), guarded by if (this.reloadTimeout)
clearReloadTimeout(st) ==
    IF st.reloadTimeout # 0
    THEN [st EXCEPT !.timers[st.reloadTimeout] = NoTimer]
    ELSE st

\* setTimeout hands out an id it has not handed out before
FreshTimerIds(st) ==
    { t \in TimerIds : st.timers[t] = NoTimer /\ t # st.reloadTimeout }

\* faulty variant: only a pending timer of the same document is cleared
contentListenerPerDocument(b, st) ==
    LET cleared == IF st.reloadTimeout # 0 /\
                      st.timers[st.reloadTimeout].resource = st.bundles[b].resource
                   THEN clearReloadTimeout(st) ELSE st
    IN  IF FreshTimerIds(cleared) = {} THEN [st EXCEPT !.ok = FALSE]
        ELSE LET t == CHOOSE x \in FreshTimerIds(cleared) :
                          \A y \in FreshTimerIds(cleared) : x <= y
             IN  [cleared EXCEPT
                    !.timers[t] = [resource |-> st.bundles[b].resource, bundle |-> b],
                    !.reloadTimeout = t]

\* the content-change listener of bundle b (the arrow function of lines 97-107)
contentListener(b, st) ==
    LET cleared == clearReloadTimeout(st)
    IN  IF FreshTimerIds(cleared) = {} THEN [st EXCEPT !.ok = FALSE]
        ELSE LET t == CHOOSE x \in FreshTimerIds(cleared) :
                          \A y \in FreshTimerIds(cleared) : x <= y
             IN  [cleared EXCEPT
                    !.timers[t] = [resource |-> st.bundles[b].resource, bundle |-> b],
                    !.reloadTimeout = t]

\* model.onDidChangeContent fires: its listeners run in the order they were added
RECURSIVE emitContentChange(_, _)
emitContentChange(ls, st) ==
    IF ls = <<>> THEN st
    ELSE emitContentChange(Tail(ls), contentListener(Head(ls), st))

\* faulty variant: the callback never unbinds
timeoutCallbackWithoutUnbind(t, st) == st

\* the callback setTimeout runs for timer t (lines 102-106)
timeoutCallback(t, st) ==
    IF ~didReload(st.timers[t].resource)
    THEN unbind(st.timers[t].bundle, st)
    ELSE st

SetBundleState(st) ==
    /\ bundles' = st.bundles
    /\ listeners' = st.listeners
    /\ hasModelListenerOnResourcePath' = st.has
    /\ timers' = st.timers
    /\ reloadTimeout' = st.reloadTimeout

----------------------------------------------------------------------------
(* Construction (lines 47-81), statement by statement *)

Init ==
    /\ pc = "configureMode"
    /\ fileChangeListener = Null
    /\ configFileChangeListener = Null
    /\ themeChangeListener = Null
    /\ editorInputChangeListener = Null
    /\ disposeCalls = [h \in Handles |-> 0]
    /\ markdownConfigurationThumbprint = Undefined
    /\ markdownConfigurationPaths = <<>>
    /\ reloadTimeout = 0
    /\ hasModelListenerOnResourcePath = [d \in Docs |-> FALSE]
    /\ bundles = [b \in BundleIds |-> NoBundle]
    /\ listeners = <<>>
    /\ timers = [t \in TimerIds |-> NoTimer]
    /\ models = {}
    /\ opened = {}
    /\ editors = [e \in Slots |-> None]
    /\ active = None
    /\ burst = 0
    /\ event = NoEvent
    /\ effects = <<>>

\* line 61: this.configureMode(themeService.getTheme())
CtorConfigureMode(theme) ==
    /\ pc = "configureMode"
    /\ pc' = "registerFile"
    /\ event' = [Ev("construct", TRUE) EXCEPT !.theme = theme]
    /\ effects' = configureModeEffects(theme)
    /\ UNCHANGED << trackerVars, styleVars, bundleVars, hostVars, burst >>

\* line 67
CtorRegisterFile ==
    /\ pc = "registerFile"
    /\ pc' = "registerConfig"
    /\ fileChangeListener' = "file"
    /\ event' = Ev("construct", TRUE)
    /\ effects' = <<>>
    /\ UNCHANGED << configFileChangeListener, themeChangeListener, editorInputChangeListener,
                    disposeCalls, styleVars, bundleVars, hostVars, burst >>

\* line 68
CtorRegisterConfig ==
    /\ pc = "registerConfig"
    /\ pc' = "registerEditors"
    /\ configFileChangeListener' = "config"
    /\ event' = Ev("construct", TRUE)
    /\ effects' = <<>>
    /\ UNCHANGED << fileChangeListener, themeChangeListener, editorInputChangeListener,
                    disposeCalls, styleVars, bundleVars, hostVars, burst >>

\* faulty variant: the theme listener is registered together with the editors
\* listener, before the initial read of the configuration
CtorRegisterEditorsAndTheme ==
    /\ pc = "registerEditors"
    /\ pc' = "readConfiguration"
    /\ editorInputChangeListener' = "editors"
    /\ themeChangeListener' = "theme"
    /\ event' = Ev("construct", TRUE)
    /\ effects' = <<>>
    /\ UNCHANGED << fileChangeListener, configFileChangeListener,
                    disposeCalls, styleVars, bundleVars, hostVars, burst >>

\* line 71
CtorRegisterEditors ==
    /\ pc = "registerEditors"
    /\ pc' = "readConfiguration"
    /\ editorInputChangeListener' = "editors"
    /\ event' = Ev("construct", TRUE)
    /\ effects' = <<>>
    /\ UNCHANGED << fileChangeListener, configFileChangeListener, themeChangeListener,
                    disposeCalls, styleVars, bundleVars, hostVars, burst >>

\* line 74: the initial read of the configuration; its result is not used
CtorReadConfiguration(cfg) ==
    /\ pc = "readConfiguration"
    /\ pc' = "registerTheme"
    /\ LET r == readMarkdownConfiguration(markdownConfigurationThumbprint, cfg)
       IN  /\ markdownConfigurationThumbprint' = r.thumbprint
           /\ markdownConfigurationPaths' = r.paths
    /\ event' = [Ev("construct", TRUE) EXCEPT !.cfg = cfg]
    /\ effects' = <<>>
    /\ UNCHANGED << trackerVars, bundleVars, hostVars, burst >>

\* line 77
CtorRegisterTheme ==
    /\ pc = "registerTheme"
    /\ pc' = "ready"
    /\ themeChangeListener' = "theme"
    /\ event' = Ev("construct", TRUE)
    /\ effects' = <<>>
    /\ UNCHANGED << fileChangeListener, configFileChangeListener, editorInputChangeListener,
                    disposeCalls, styleVars, bundleVars, hostVars, burst >>

----------------------------------------------------------------------------
(* The host opens, focuses and closes editors, creates and disposes models *)

Shown(i) == \E e \in Slots : editors[e] = i

\* the position that is active once position e shows nothing
ActiveAfterClose(e) ==
    IF active # e THEN active
    ELSE IF \E x \in Slots : x # e /\ editors[x] # None
         THEN CHOOSE x \in Slots : x # e /\ editors[x] # None
         ELSE None

\* an input is opened at position e and becomes active; the input shown there
\* before stays open in the background
OpenEditor(e, i) ==
    /\ pc = "ready"
    /\ ~Shown(i)
    /\ editors' = [editors EXCEPT ![e] = i]
    /\ active' = e
    /\ opened' = opened \cup ({i} \cap MdInputs)
    /\ event' = Ev("host", FALSE)
    /\ effects' = <<>>
    /\ UNCHANGED << pc, trackerVars, styleVars, bundleVars, models, burst >>

FocusEditor(e) ==
    /\ pc = "ready"
    /\ editors[e] # None
    /\ active # e
    /\ active' = e
    /\ event' = Ev("host", FALSE)
    /\ effects' = <<>>
    /\ UNCHANGED << pc, trackerVars, styleVars, bundleVars, models, opened, editors, burst >>

\* the listeners of input i's DISPOSE event
InputDisposeListeners(i) ==
    { b \in BundleIds : "input" \in bundles[b].toUnbind /\ bundles[b].input = i }

\* the listeners of the onWillDispose event of the model of d
ModelDisposeListeners(d) ==
    { b \in BundleIds : "model" \in bundles[b].toUnbind /\ bundles[b].resource = d }

\* the content listeners of the model of d, in the order they were added
ContentListeners(d) ==
    SelectSeq(listeners, LAMBDA b : bundles[b].resource = d)

\* a markdown input is closed for good: it leaves its editor and is disposed
DisposeInput(i) ==
    /\ pc = "ready"
    /\ i \in opened
    /\ opened' = opened \ {i}
    /\ editors' = [e \in Slots |-> IF editors[e] = i THEN None ELSE editors[e]]
    /\ active' = IF active # None /\ editors[active] = i
                 THEN ActiveAfterClose(active) ELSE active
    /\ SetBundleState(Collect(unbindAll(InputDisposeListeners(i), BundleState)))
    /\ event' = [Ev("inputDispose", InputDisposeListeners(i) # {})
                    EXCEPT !.doc = getResource(i)]
    /\ effects' = <<>>
    /\ UNCHANGED << pc, trackerVars, styleVars, models, burst >>

\* an editor showing an input of another type is closed
CloseEditor(e) ==
    /\ pc = "ready"
    /\ editors[e] \in OtherInputs
    /\ editors' = [editors EXCEPT ![e] = None]
    /\ active' = ActiveAfterClose(e)
    /\ event' = Ev("host", FALSE)
    /\ effects' = <<>>
    /\ UNCHANGED << pc, trackerVars, styleVars, bundleVars, models, opened, burst >>

CreateModel(d) ==
    /\ pc = "ready"
    /\ d \notin models
    /\ models' = models \cup {d}
    /\ event' = Ev("host", FALSE)
    /\ effects' = <<>>
    /\ UNCHANGED << pc, trackerVars, styleVars, bundleVars, opened, editors, active, burst >>

DisposeModel(d) ==
    /\ pc = "ready"
    /\ d \in models
    /\ models' = models \ {d}
    /\ SetBundleState(Collect(unbindAll(ModelDisposeListeners(d), BundleState)))
    /\ event' = [Ev("modelDispose", ModelDisposeListeners(d) # {}) EXCEPT !.doc = d]
    /\ effects' = <<>>
    /\ UNCHANGED << pc, trackerVars, styleVars, opened, editors, active, burst >>

----------------------------------------------------------------------------
(* The handlers of the tracker *)

FreeBundleIds(st) == { b \in BundleIds : st.bundles[b] = NoBundle }

\* faulty variant: the has-listener flag is not read
mayAttachIgnoringFlag(input, st) == getModel(getResource(input)) # None

\* the condition of line 88
mayAttach(input, st) ==
    /\ getModel(getResource(input)) # None
    /\ ~st.has[getResource(input)]

\* onEditorsChanged() (lines 83-117)
onEditorsChanged(st) ==
    LET input == getActiveEditorInput
    IN  IF IsMarkdownEditorInput(input) /\ mayAttach(input, st)
        THEN IF FreeBundleIds(st) = {} THEN [st EXCEPT !.ok = FALSE]
             ELSE LET b == CHOOSE x \in FreeBundleIds(st) :
                               \A y \in FreeBundleIds(st) : x <= y
                  IN  [st EXCEPT
                         !.bundles[b] = [resource |-> getResource(input),
                                         input |-> input,
                                         toUnbind |-> Subscriptions],
                         !.listeners = Append(st.listeners, b),
                         !.has[getResource(input)] = TRUE]
        ELSE st

\* editorGroupService.onEditorsChanged fires
EditorsChanged ==
    /\ pc = "ready"
    /\ IF Subscribed("editors")
       THEN /\ onEditorsChanged(BundleState).ok
            /\ SetBundleState(onEditorsChanged(BundleState))
       ELSE UNCHANGED bundleVars
    /\ event' = [Ev("editors", Subscribed("editors"))
                    EXCEPT !.doc = IF IsMarkdownEditorInput(getActiveEditorInput)
                                   THEN getResource(getActiveEditorInput) ELSE None]
    /\ effects' = <<>>
    /\ UNCHANGED << pc, trackerVars, styleVars, hostVars, burst >>

\* the model of d changes its content: model.onDidChangeContent fires
ContentChange(d) ==
    /\ pc = "ready"
    /\ d \in models
    /\ burst < MaxBurst
    /\ emitContentChange(ContentListeners(d), BundleState).ok
    /\ SetBundleState(emitContentChange(ContentListeners(d), BundleState))
    /\ burst' = IF ContentListeners(d) # <<>> THEN burst + 1 ELSE burst
    /\ event' = [Ev("content", ContentListeners(d) # <<>>) EXCEPT !.doc = d]
    /\ effects' = <<>>
    /\ UNCHANGED << pc, trackerVars, styleVars, hostVars >>

\* faulty variant: the callback makes a full reload that clears the frames
timeoutCallbackEffectsFull(t) == ReloadEffects(TRUE, None)

\* the calls the callback of timer t makes: the reload of line 103
timeoutCallbackEffects(t) == ReloadEffects(FALSE, timers[t].resource)

\* the delay of timer t has passed: its callback runs
TimerFire(t) ==
    /\ pc = "ready"
    /\ timers[t] # NoTimer
    /\ SetBundleState(Collect([timeoutCallback(t, BundleState) EXCEPT !.timers[t] = NoTimer]))
    /\ burst' = 0
    /\ event' = [Ev("timer", TRUE) EXCEPT !.doc = timers[t].resource, !.burst = burst,
                                          !.bundle = timers[t].bundle]
    /\ effects' = timeoutCallbackEffects(t)
    /\ UNCHANGED << pc, trackerVars, styleVars, hostVars >>

\* onConfigFileChange(e) (lines 130-136)
onConfigFileChangeEffects(cfg) ==
    IF readMarkdownConfiguration(markdownConfigurationThumbprint, cfg).changed
    THEN ReloadEffects(TRUE, None)
    ELSE <<>>

\* configurationService.onDidUpdateConfiguration fires
ConfigurationUpdated(cfg) ==
    /\ pc = "ready"
    /\ IF Subscribed("config")
       THEN LET r == readMarkdownConfiguration(markdownConfigurationThumbprint, cfg)
            IN  /\ markdownConfigurationThumbprint' = r.thumbprint
                /\ markdownConfigurationPaths' = r.paths
                /\ effects' = onConfigFileChangeEffects(cfg)
       ELSE /\ UNCHANGED styleVars
            /\ effects' = <<>>
    /\ event' = [Ev("config", Subscribed("config")) EXCEPT !.cfg = cfg]
    /\ UNCHANGED << pc, trackerVars, bundleVars, hostVars, burst >>

\* onFileChanges(e) (lines 162-168)
onFileChangesEffects(changes) ==
    IF StyleFileChanged(markdownConfigurationPaths, changes)
    THEN ReloadEffects(TRUE, None)
    ELSE <<>>

\* the event service emits FILE_CHANGES
FileChanges(changes) ==
    /\ pc = "ready"
    /\ effects' = IF Subscribed("file") THEN onFileChangesEffects(changes) ELSE <<>>
    /\ event' = [Ev("file", Subscribed("file")) EXCEPT !.changes = changes]
    /\ UNCHANGED << pc, trackerVars, styleVars, bundleVars, hostVars, burst >>

\* faulty variant: the reload runs before the mode is configured
onThemeChangeEffectsReloadFirst(theme) ==
    ReloadEffects(TRUE, None) \o configureModeEffects(theme)

\* the listener of themeService.onDidThemeChange (lines 77-80)
onThemeChangeEffects(theme) ==
    configureModeEffects(theme) \o ReloadEffects(TRUE, None)

\* themeService.onDidThemeChange fires
ThemeChange(theme) ==
    /\ pc = "ready"
    /\ effects' = IF Subscribed("theme") THEN onThemeChangeEffects(theme) ELSE <<>>
    /\ event' = [Ev("theme", Subscribed("theme")) EXCEPT !.theme = theme]
    /\ UNCHANGED << pc, trackerVars, styleVars, bundleVars, hostVars, burst >>

\* faulty variant: the field is disposed without the test
disposeFieldUnchecked(field, calls) == [field |-> Null, calls |-> calls + 1]

\* one if-block of dispose(): the field and the dispose() calls of its handle after it
disposeField(field, calls) ==
    IF field # Null
    THEN [field |-> Null, calls |-> calls + 1]
    ELSE [field |-> field, calls |-> calls]

\* faulty variant: dispose() also cancels the pending debounce timer
DisposeCancellingTimer ==
    /\ pc = "ready"
    /\ fileChangeListener' = disposeField(fileChangeListener, disposeCalls["file"]).field
    /\ configFileChangeListener' =
           disposeField(configFileChangeListener, disposeCalls["config"]).field
    /\ editorInputChangeListener' =
           disposeField(editorInputChangeListener, disposeCalls["editors"]).field
    /\ disposeCalls' =
           [disposeCalls EXCEPT
              !["file"] = disposeField(fileChangeListener, @).calls,
              !["config"] = disposeField(configFileChangeListener, @).calls,
              !["editors"] = disposeField(editorInputChangeListener, @).calls]
    /\ SetBundleState(Collect(clearReloadTimeout(BundleState)))
    /\ event' = [Ev("dispose", TRUE) EXCEPT
                    !.again = /\ fileChangeListener = Null
                              /\ configFileChangeListener = Null
                              /\ editorInputChangeListener = Null]
    /\ effects' = <<>>
    /\ UNCHANGED << pc, themeChangeListener, styleVars, hostVars, burst >>

\* dispose() (lines 189-204)
Dispose ==
    /\ pc = "ready"
    /\ fileChangeListener' = disposeField(fileChangeListener, disposeCalls["file"]).field
    /\ configFileChangeListener' =
           disposeField(configFileChangeListener, disposeCalls["config"]).field
    /\ editorInputChangeListener' =
           disposeField(editorInputChangeListener, disposeCalls["editors"]).field
    /\ disposeCalls' =
           [disposeCalls EXCEPT
              !["file"] = disposeField(fileChangeListener, @).calls,
              !["config"] = disposeField(configFileChangeListener, @).calls,
              !["editors"] = disposeField(editorInputChangeListener, @).calls]
    /\ event' = [Ev("dispose", TRUE) EXCEPT
                    !.again = /\ fileChangeListener = Null
                              /\ configFileChangeListener = Null
                              /\ editorInputChangeListener = Null]
    /\ effects' = <<>>
    /\ UNCHANGED << pc, themeChangeListener, styleVars, bundleVars, hostVars, burst >>

\* the tracker has been disposed
Disposed ==
    /\ pc = "ready"
    /\ fileChangeListener = Null
    /\ configFileChangeListener = Null
    /\ editorInputChangeListener = Null

----------------------------------------------------------------------------
(* Specifications *)

Construct(themes, configs) ==
    \/ \E theme \in themes : CtorConfigureMode(theme)
    \/ CtorRegisterFile
    \/ CtorRegisterConfig
    \/ CtorRegisterEditors
    \/ \E cfg \in configs : CtorReadConfiguration(cfg)
    \/ CtorRegisterTheme

Host(inputs, docs) ==
    \/ \E e \in Slots, i \in inputs : OpenEditor(e, i)
    \/ \E e \in Slots : FocusEditor(e)
    \/ \E e \in Slots : CloseEditor(e)
    \/ \E i \in inputs \cap MdInputs : DisposeInput(i)
    \/ \E d \in docs : CreateModel(d)
    \/ \E d \in docs : DisposeModel(d)

Sync(docs) ==
    \/ EditorsChanged
    \/ \E d \in docs : ContentChange(d)
    \/ \E t \in TimerIds : TimerFire(t)

Styles(themes, configs, fileEvents) ==
    \/ \E cfg \in configs : ConfigurationUpdated(cfg)
    \/ \E changes \in fileEvents : FileChanges(changes)
    \/ \E theme \in themes : ThemeChange(theme)

\* the whole tracker, with one document, one preview input and few payloads
Next ==
    \/ Construct({<<"vs">>}, {Config("array", <<>>)})
    \/ Host({"i1", "t1"}, {"d1"})
    \/ Sync({"d1"})
    \/ Styles({<<"vs">>}, {Config("null", <<>>), Config("array", <<>>)},
              CoreFileChangesEvents)
    \/ Dispose

Spec == Init /\ [][Next]_vars

\* document synchronisation: all inputs and documents, no style events
NextSync ==
    \/ Construct({<<"vs">>}, {Config("array", <<>>)})
    \/ Host({"i1", "i3", "t1"}, Docs)
    \/ Sync(Docs)

SpecSync == Init /\ [][NextSync]_vars

\* style, theme and file events with all their payloads; previews open and
\* close, no document has a model
NextStyles ==
    \/ Construct(ThemeIds, AllConfigs)
    \/ \E e \in Slots, i \in {"i1", "i3", "t1"} : OpenEditor(e, i)
    \/ \E e \in Slots : CloseEditor(e)
    \/ \E i \in {"i1", "i3"} : DisposeInput(i)
    \/ Styles(ThemeIds, AllConfigs, FileChangesEvents)
    \/ Dispose

SpecStyles == Init /\ [][NextStyles]_vars

\* document synchronisation together with theme changes: scoped reloads and
\* full reloads over previews of two documents
NextReload ==
    \/ NextSync
    \/ ThemeChange(<<"vs">>)

SpecReload == Init /\ [][NextReload]_vars

\* two preview inputs of one document and a text editor
NextPreviews ==
    \/ Construct({<<"vs">>}, {Config("array", <<>>)})
    \/ Host({"i1", "i2", "t1"}, {"d1"})
    \/ Sync({"d1"})

SpecPreviews == Init /\ [][NextPreviews]_vars

\* teardown with a debounce timer in flight: one document and one preview; the
\* model does not change its content once the tracker is disposed, so a timer
\* that fires after dispose() was pending when dispose() ran
NextTeardown ==
    \/ Construct({<<"vs">>}, {Config("array", <<>>)})
    \/ Host({"i1", "t1"}, {"d1"})
    \/ EditorsChanged
    \/ ~Disposed /\ ContentChange("d1")
    \/ \E t \in TimerIds : TimerFire(t)
    \/ Dispose

SpecTeardown == Init /\ [][NextTeardown]_vars

----------------------------------------------------------------------------
(* Properties *)

PendingTimers == { t \in TimerIds : timers[t] # NoTimer }

\* the invocations of reloadMarkdownEditors among the calls of the last step
ReloadCalls == SelectSeq(effects, LAMBDA x : x.op = "reloadMarkdownEditors")

\* the editors the last step called reload() on
ReloadedEditors == SelectSeq(effects, LAMBDA x : x.op = "reload")

ConfigureModeCalls == SelectSeq(effects, LAMBDA x : x.op = "configureMode")

\* the visible previews of document d
VisiblePreviews(d) ==
    { e \in Slots : editors[e] \in MdInputs /\ getResource(editors[e]) = d }

\* the live content-change listeners of the tracker on the model of d
LiveContentListeners(d) ==
    { b \in BundleIds : "content" \in bundles[b].toUnbind /\ bundles[b].resource = d }

\* C1: a burst of content changes, each arriving while the timer of the one
\* before is pending, reloads nothing while it lasts, leaves exactly one
\* pending timer, which is for the document changed last, and ends with the
\* one firing of that timer: exactly one invocation of the reload, for that
\* document, reaching its preview if one is visible, and no timer is left.
C1_BurstReloadsOnce ==
    /\ event.kind = "content" => effects = <<>>
    /\ (burst > 0) <=> (PendingTimers # {})
    /\ burst > 0 => /\ PendingTimers = {reloadTimeout}
                    /\ event.kind = "content" /\ event.handled
                           => timers[reloadTimeout].resource = event.doc
    /\ event.kind = "timer" =>
          /\ event.burst >= 1
          /\ burst = 0
          /\ ReloadCalls = <<Effect("reloadMarkdownEditors", FALSE, event.doc)>>
          /\ VisiblePreviews(event.doc) # {} => Len(ReloadedEditors) >= 1

C1_Witness ==
    /\ event.kind = "timer"
    /\ event.burst >= 2
    /\ Len(ReloadedEditors) = 1
    /\ LiveContentListeners(event.doc) # {}

\* C2: no document has more than one live content-change listener of the tracker.
C2_AtMostOneListener ==
    \A d \in Docs : Cardinality(LiveContentListeners(d)) <= 1

\* C3: when a timer fires and no preview of its document is visible, the
\* callback calls reload() on no editor, the listener bundle that set the timer
\* is released, and the has-listener flag of the document is false.
C3_FiredAfterClose ==
    event.kind = "timer" /\ VisiblePreviews(event.doc) = {} =>
        /\ ReloadedEditors = <<>>
        /\ bundles[event.bundle].toUnbind = {}
        /\ event.bundle \notin { listeners[k] : k \in 1..Len(listeners) }
        /\ ~hasModelListenerOnResourcePath[event.doc]

C3_Witness ==
    /\ event.kind = "timer"
    /\ \A i \in opened : getResource(i) # event.doc
    /\ event.doc \in models
    /\ ReloadedEditors = <<>>
    /\ ~hasModelListenerOnResourcePath[event.doc]

\* C8: at most one debounce timer is pending.
C8_OnePendingTimer == Cardinality(PendingTimers) <= 1

C8_Witness ==
    /\ event.kind = "content"
    /\ event.handled
    /\ burst >= 2
    /\ \A d \in Docs : LiveContentListeners(d) # {}
    /\ PendingTimers = {reloadTimeout}

\* the last step made one full reload pass: one invocation with clearIFrame
\* true and no resource, then reload(true) on every visible preview, in order
FullReloadPass(calls) ==
    /\ Len(calls) >= 1
    /\ calls[1] = Effect("reloadMarkdownEditors", TRUE, None)
    /\ Len(calls) = 1 + Cardinality({ e \in Slots : editors[e] \in MdInputs })
    /\ \A k \in 2..Len(calls) :
          /\ calls[k].op = "reload"
          /\ calls[k].clear
          /\ editors[calls[k].arg] \in MdInputs
    /\ \A j, k \in 2..Len(calls) : j # k => calls[j].arg # calls[k].arg

\* the fingerprint of a configuration event: its style list joined, or
\* undefined when there is no array of styles
Fingerprint(cfg) == IF cfg.kind = "array" THEN Str(join(cfg.styles)) ELSE Undefined

\* C4: a configuration update is followed by a full reload if and only if the
\* fingerprint of its style list differs from the one the read before stored.
C4_ReloadIffFingerprintDiffers ==
    [][ event'.kind = "config" /\ event'.handled =>
          IF Fingerprint(event'.cfg) # markdownConfigurationThumbprint
          THEN FullReloadPass(effects')
          ELSE effects' = <<>> ]_vars

C4_Witness ==
    /\ event.kind = "config"
    /\ event.handled
    /\ Len(event.cfg.styles) = 2
    /\ Len(ReloadedEditors) = 2

\* C5: a configuration update is followed by exactly one full reload if its
\* list of style paths differs from the stored one, and by none if it is the same.
C5_ReloadIffListDiffers ==
    [][ event'.kind = "config" /\ event'.handled =>
          IF NewPaths(event'.cfg) # markdownConfigurationPaths
          THEN FullReloadPass(effects')
          ELSE effects' = <<>> ]_vars

\* C6: once dispose() has run, all four registrations are released, and no
\* file, configuration, editor or theme event runs a handler of the tracker.
C6_DisposeReleasesAll ==
    Disposed =>
        /\ \A h \in Handles : disposeCalls[h] >= 1
        /\ event.kind \in {"file", "config", "editors", "theme"} =>
              ~event.handled /\ effects = <<>>

\* C7: dispose() on a disposed tracker disposes nothing again and changes no
\* field of the tracker.
C7_DisposeIdempotent ==
    [][ event'.kind = "dispose" /\ Disposed =>
          /\ disposeCalls' = disposeCalls
          /\ \A h \in {"file", "config", "editors"} : disposeCalls'[h] = 1
          /\ UNCHANGED << pc, fileChangeListener, configFileChangeListener,
                          themeChangeListener, editorInputChangeListener,
                          styleVars, bundleVars, hostVars, burst >> ]_vars

C7_Witness ==
    /\ event.kind = "dispose"
    /\ event.again
    /\ Disposed

\* C9 as stated: every theme change makes one configureMode call with the
\* base of the new theme, then one full reload pass.
C9_ThemeChangeConfiguresAndReloads ==
    event.kind = "theme" =>
        /\ Len(ConfigureModeCalls) = 1
        /\ effects[1] = Effect("configureMode", FALSE, event.theme[1])
        /\ FullReloadPass(Tail(effects))

\* C9: a theme change with a non-empty identifier makes one configureMode call
\* with the identifier up to its first blank, then one full reload pass; with
\* an empty identifier it makes no configureMode call and one full reload pass.
C9_ThemeChangeAmended ==
    event.kind = "theme" =>
        IF event.theme # <<>>
        THEN /\ Len(ConfigureModeCalls) = 1
             /\ effects[1] = Effect("configureMode", FALSE, event.theme[1])
             /\ FullReloadPass(Tail(effects))
        ELSE /\ ConfigureModeCalls = <<>>
             /\ FullReloadPass(effects)

C9_Witness ==
    /\ event.kind = "theme"
    /\ event.theme = <<"vs-dark", "custom">>
    /\ Len(ReloadedEditors) = 2

\* C10: a file-change event is followed by a full reload pass if the stored
\* list of style paths is not empty and the event holds an UPDATED change of
\* the resource of one of them, and by nothing otherwise.
C10_FileChangeReload ==
    event.kind = "file" /\ event.handled =>
        IF /\ markdownConfigurationPaths # <<>>
           /\ \E k \in 1..Len(markdownConfigurationPaths) :
                 [resource |-> <<"w">> \o markdownConfigurationPaths[k],
                  type |-> "UPDATED"] \in event.changes
        THEN FullReloadPass(effects)
        ELSE effects = <<>>

C10_Witness ==
    /\ event.kind = "file"
    /\ event.handled
    /\ Len(markdownConfigurationPaths) = 2
    /\ Cardinality(event.changes) = 2
    /\ Len(ReloadedEditors) = 1

\* C11: an invocation of reloadMarkdownEditors(clearIFrame, resource) calls
\* reload(clearIFrame) once on each visible editor that shows a preview input
\* and, when a resource is given, whose document is that resource, and on no
\* other editor; it returns true exactly when it called reload on an editor: the
\* timer callback, which tests the return value, unbinds exactly when no
\* editor was reloaded.
C11_ReloadExactlyMatching ==
    [][ ReloadCalls' # <<>> =>
          LET call == ReloadCalls'[1]
              matching == { e \in Slots :
                              /\ editors[e] \in MdInputs
                              /\ call.arg # None => getResource(editors[e]) = call.arg }
              reloaded == ReloadedEditors'
          IN  /\ Len(ReloadCalls') = 1
              /\ { reloaded[k].arg : k \in 1..Len(reloaded) } = matching
              /\ Len(reloaded) = Cardinality(matching)
              /\ \A k \in 1..Len(reloaded) : reloaded[k].clear = call.clear
              /\ event'.kind = "timer" =>
                    IF matching # {}
                    THEN /\ hasModelListenerOnResourcePath' = hasModelListenerOnResourcePath
                         /\ listeners' = listeners
                    ELSE /\ ~hasModelListenerOnResourcePath'[call.arg]
                         /\ \A k \in 1..Len(listeners') : listeners'[k] # event'.bundle
      ]_vars

C11_Witness ==
    /\ event.kind = "timer"
    /\ \E e \in Slots : editors[e] \in MdInputs /\ getResource(editors[e]) # event.doc
    /\ \E e \in Slots : editors[e] \in MdInputs /\ getResource(editors[e]) = event.doc
    /\ Len(ReloadedEditors) = 1
    /\ ~ReloadedEditors[1].clear

\* the constructor has made its initial read of the configuration (line 74)
SnapshotCaptured == pc \in {"registerTheme", "ready"}

\* one of the four listener fields holds a registration
AnyListenerRegistered ==
    \/ fileChangeListener # Null
    \/ configFileChangeListener # Null
    \/ editorInputChangeListener # Null
    \/ themeChangeListener # Null

\* C12 as stated: in every state in which one of the four listeners is
\* registered, the initial style snapshot has been captured.
C12_RegisteredAfterSnapshot == AnyListenerRegistered => SnapshotCaptured

\* C12: the constructor applies the theme before it registers any listener; it
\* registers the file, configuration and editors listeners, then captures the
\* style snapshot of the configuration it reads, and registers the theme
\* listener last; a handler of the four listeners runs only after all of it.
C12_ConstructionOrder ==
    /\ AnyListenerRegistered => pc # "configureMode"
    /\ pc = "readConfiguration" =>
          /\ fileChangeListener # Null
          /\ configFileChangeListener # Null
          /\ editorInputChangeListener # Null
          /\ markdownConfigurationThumbprint = Undefined
          /\ markdownConfigurationPaths = <<>>
    /\ pc = "registerTheme" =>
          /\ markdownConfigurationThumbprint = Fingerprint(event.cfg)
          /\ markdownConfigurationPaths = NewPaths(event.cfg)
    /\ themeChangeListener # Null => SnapshotCaptured
    /\ event.kind \in {"file", "config", "editors", "theme"} /\ event.handled =>
          SnapshotCaptured

C12_Witness ==
    /\ pc = "registerTheme"
    /\ fileChangeListener # Null
    /\ themeChangeListener = Null
    /\ markdownConfigurationThumbprint = Str(<<>>)

\* C13: the first of the DISPOSE event of the preview input and the
\* onWillDispose event of the model releases the whole bundle (all three
\* subscriptions) and sets the flag of the document to false; after that no
\* content listener of the tracker is attached to the model, so its content
\* changes set no timer; the second of the two events changes nothing.
C13_FirstDisposeReleasesBundle ==
    [][ /\ event'.kind \in {"inputDispose", "modelDispose"} =>
            /\ \A b \in BundleIds : bundles'[b].toUnbind \in {{}, Subscriptions}
            /\ IF event'.handled
               THEN /\ ~hasModelListenerOnResourcePath'[event'.doc]
                    /\ \A b \in BundleIds :
                          /\ bundles[b].toUnbind # {}
                          /\ \/ event'.kind = "modelDispose" /\ bundles[b].resource = event'.doc
                             \/ event'.kind = "inputDispose" /\ bundles[b].input \notin opened'
                          => /\ bundles'[b].toUnbind = {}
                             /\ \A k \in 1..Len(listeners') : listeners'[k] # b
                    /\ \A k \in 1..Len(listeners') :
                          bundles'[listeners'[k]].resource # event'.doc
               ELSE /\ UNCHANGED << hasModelListenerOnResourcePath, listeners,
                                   timers, reloadTimeout >>
                    /\ \A b \in BundleIds : bundles'[b].toUnbind = bundles[b].toUnbind
        /\ event'.kind = "content" /\ ContentListeners(event'.doc) = <<>> =>
            /\ ~event'.handled
            /\ UNCHANGED << timers, reloadTimeout >>
      ]_vars

\* C14: the reload of the debounce timer is for the document whose content
\* change set the timer and never clears a frame: a pending timer holds the
\* document of the change that set it, and when it fires the one invocation is
\* reloadMarkdownEditors(false, that document), every editor reloaded shows a
\* preview of that document, and no call has clearIFrame true.
C14_DebouncedReloadScoped ==
    /\ event.kind = "content" /\ event.handled =>
          /\ reloadTimeout \in PendingTimers
          /\ timers[reloadTimeout].resource = event.doc
    /\ \A t \in PendingTimers :
          /\ timers[t].resource \in Docs
          /\ bundles[timers[t].bundle].resource = timers[t].resource
    /\ event.kind = "timer" =>
          /\ event.doc \in Docs
          /\ bundles[event.bundle].resource \in {event.doc, None}
          /\ ReloadCalls = <<Effect("reloadMarkdownEditors", FALSE, event.doc)>>
          /\ \A k \in 1..Len(effects) :
                /\ ~effects[k].clear
                /\ effects[k].op = "reload" =>
                      /\ editors[effects[k].arg] \in MdInputs
                      /\ getResource(editors[effects[k].arg]) = event.doc

C14_Witness ==
    /\ event.kind = "timer"
    /\ event.doc = "d2"
    /\ \E e \in Slots : editors[e] = "i1"
    /\ Len(ReloadedEditors) = 1
    /\ editors[ReloadedEditors[1].arg] = "i3"

\* C15: onEditorsChanged changes no state of the tracker (flags, bundles,
\* listeners, timers, style snapshot) and reloads nothing when the active input
\* is not a preview input, when the flag of its document is already set, or
\* when its document has no model.
C15_EditorsChangedFrame ==
    [][ /\ event'.kind = "editors"
        /\ \/ ~IsMarkdownEditorInput(getActiveEditorInput)
           \/ hasModelListenerOnResourcePath[getResource(getActiveEditorInput)]
           \/ getModel(getResource(getActiveEditorInput)) = None
        => /\ UNCHANGED << trackerVars, styleVars, bundleVars, hostVars >>
           /\ effects' = <<>>
      ]_vars

C15_Witness ==
    /\ event.kind = "editors"
    /\ event.handled
    /\ event.doc # None
    /\ hasModelListenerOnResourcePath[event.doc]
    /\ reloadTimeout \in PendingTimers
    /\ timers[reloadTimeout].resource = event.doc
    /\ "content" \in bundles[timers[reloadTimeout].bundle].toUnbind
    /\ Cardinality(LiveContentListeners(event.doc)) = 1

\* C16: after every read of the configuration, at construction or at a
\* configuration update, with or without a reload, the stored snapshot is the
\* one of that configuration alone: the paths are its styles, each
\* normalized and made absolute, in order, or none when there is no
\* configuration, no markdown section or no array of styles; the thumbprint is
\* its styles joined, or undefined in those cases.
C16_SnapshotFromEventAlone ==
    \/ /\ event.kind = "config"
       /\ event.handled
    \/ /\ event.kind = "construct"
       /\ pc = "registerTheme"
    => /\ markdownConfigurationPaths =
             IF event.cfg.kind = "array"
             THEN [k \in 1..Len(event.cfg.styles) |->
                      makePosixAbsolute(normalize(event.cfg.styles[k]))]
             ELSE <<>>
       /\ markdownConfigurationThumbprint =
             IF event.cfg.kind = "array"
             THEN Str(join(event.cfg.styles))
             ELSE Undefined

C16_Witness ==
    /\ event.kind = "config"
    /\ event.handled
    /\ effects = <<>>
    /\ Len(event.cfg.styles) = 2
    /\ Len(markdownConfigurationPaths) = 2
    /\ \E e \in Slots : editors[e] \in MdInputs

\* C17 as stated: a timer that was pending when the tracker was disposed
\* reloads no editor when it fires.
C17_TimerAfterDisposeReloadsNothing ==
    Disposed /\ event.kind = "timer" => ReloadedEditors = <<>>

\* C17: dispose() leaves a pending timer as it is, and when the timer fires
\* after it its callback does what it does before it: one invocation of
\* reloadMarkdownEditors(false, its document), which reloads every visible
\* preview of the document, and reloads nothing only if none is visible.
C17_TimerSurvivesDispose ==
    [][ /\ event'.kind = "dispose" =>
            UNCHANGED << timers, reloadTimeout, bundles, listeners,
                         hasModelListenerOnResourcePath >>
        /\ Disposed /\ event'.kind = "timer" =>
            /\ ReloadCalls' = <<Effect("reloadMarkdownEditors", FALSE, event'.doc)>>
            /\ Len(ReloadedEditors') =
                  Cardinality({ e \in Slots : /\ editors[e] \in MdInputs
                                              /\ getResource(editors[e]) = event'.doc })
            /\ \A k \in 1..Len(ReloadedEditors') :
                  /\ ~ReloadedEditors'[k].clear
                  /\ editors[ReloadedEditors'[k].arg] \in MdInputs
                  /\ getResource(editors[ReloadedEditors'[k].arg]) = event'.doc
      ]_vars

C17_Witness ==
    /\ Disposed
    /\ event.kind = "timer"
    /\ Len(ReloadedEditors) = 1
    /\ PendingTimers = {}

\* C18: the has-listener flag of a document is true exactly when a content
\* listener of the tracker that has not been disposed is attached to the model
\* of the document.
C18_FlagIffListenerAttached ==
    \A d \in Docs : hasModelListenerOnResourcePath[d] <=> LiveContentListeners(d) # {}

\* C19: while content listeners are attached for both documents and previews
\* of both stay visible, a reload that a content change of a document has
\* scheduled stays scheduled until the timer fires for that document: a step
\* other than that firing leaves a timer of the document pending. Without it a
\* change of the document is not followed by a reload of the document.
C19_ScheduledReloadKept ==
    [][ \A d \in Docs :
          /\ \A x \in Docs : /\ LiveContentListeners(x) # {}
                             /\ VisiblePreviews(x) # {}
                             /\ VisiblePreviews(x)' # {}
                             /\ x \in models
                             /\ x \in models'
          /\ \E t \in PendingTimers : timers[t].resource = d
          /\ ~(event'.kind = "timer" /\ event'.doc = d)
          => \E t \in TimerIds : timers'[t].resource = d
      ]_vars

\* C20: when the input a bundle was attached through is disposed while another
\* preview of the same document is visible and the model is live, a content
\* listener of the tracker is still attached to the model: only through one
\* does a later content change set the timer that reloads the other preview.
C20_OtherPreviewStillSynchronized ==
    /\ event.kind = "inputDispose"
    /\ event.handled
    /\ event.doc \in models
    /\ VisiblePreviews(event.doc) # {}
    => LiveContentListeners(event.doc) # {}

====
